---- MODULE Spec2Model ----
(***************************************************************************)
(* A state-machine model of the platformer's Game class (src/code/main.py):*)
(* the mode switch of Game.run, the Playing frame of Game.run_game, the    *)
(* combat collisions of Game.collision, the periodic bee spawner and the   *)
(* worm respawn scheduling.                                                *)
(*                                                                         *)
(* Time is counted in milliseconds.  A Timer is kept as the time elapsed   *)
(* since it was armed (get_ticks() - start_time), saturated at its         *)
(* duration: the only thing a Timer ever does with it is compare it with   *)
(* the duration.  Positions are pixels; a sprite is a record holding the   *)
(* top-left corner and the size of its rect, and masks are fully opaque,   *)
(* so that two sprites mask-overlap exactly when their rects overlap.      *)
(***************************************************************************)
EXTENDS Integers, Sequences, FiniteSets

\* ------------------------------------------------------------ constants

TILE_SIZE == 64
WINDOW_WIDTH == 64
BeeInterval == 1000
RespawnDelay == 3000
BeeSpeedMin == 300
BeeSpeedMax == 500
BulletOffset == 34
FRAMERATE == 60

\* ------------------------------------------------------------ bounds

\* A frame lasts 1..MaxDtSteps quanta of Quantum ms (clock.tick only gives a
\* lower limit, never an upper one).
MaxDtSteps == 2
\* The player's fire input is only taken while fewer bullets are in flight.
MaxBullets == 1
\* Respawn timers that have been armed and can be told apart.
MaxTimers == 1
\* The character slots the pointer is tried over (of the five).
MaxSlot == 2
\* Bullets in flight under the volley specification.
MaxVolley == 2
\* Where the draws of randint are sampled, the range is cut into this many
\* equal steps and the draws are the values the steps begin at.
MaxBeeYSteps == 1
MaxBeeSpeedSteps == 2

Quantum == BeeInterval \div 2
DtChoices == { Quantum * k : k \in 1..MaxDtSteps }

\* ------------------------------------------------------------ level data

\* What load_pygame returns for data/maps/world.tmx: the size of the map in
\* tiles, layer "Main" (tiles that collide), layer "Decoration" (tiles that
\* do not), layer "Entities" (one Player, and the declared Worms with their
\* rects).  WorldMap is two tiles wide with a Worm in its right half;
\* LongMap is three tiles wide with a Worm in its last third.
WorldMap ==
    [width |-> 2, height |-> 1,
     Main |-> << [x |-> 0, y |-> 0] >>,
     Decoration |-> << [x |-> 1, y |-> 0] >>,
     Entities |->
        << [name |-> "Player", x |-> 0, y |-> 0, width |-> 0, height |-> 0],
           [name |-> "Worm", x |-> 64, y |-> 0, width |-> 64, height |-> 64] >>]

LongMap ==
    [width |-> 3, height |-> 1,
     Main |-> << [x |-> 0, y |-> 0] >>,
     Decoration |-> << >>,
     Entities |->
        << [name |-> "Player", x |-> 0, y |-> 0, width |-> 0, height |-> 0],
           [name |-> "Worm", x |-> 128, y |-> 0, width |-> 64, height |-> 64] >>]

character_keys == << "beige", "green", "pink", "purple", "yellow" >>

Modes == { "menu", "game", "game_over" }

\* ------------------------------------------------------------ helpers

Min(a, b) == IF a < b THEN a ELSE b
Max(a, b) == IF a > b THEN a ELSE b

\* The smallest element of a non-empty set of integers.
Least(S) == CHOOSE m \in S : \A n \in S : m <= n

\* pygame.sprite.collide_mask with opaque masks: the two rects overlap.
collide_mask(a, b) ==
    /\ a.x < b.x + b.w
    /\ b.x < a.x + a.w
    /\ a.y < b.y + b.h
    /\ b.y < a.y + a.h

\* ------------------------------------------------------------ clock

\* clock.tick(FRAMERATE): the call waits until the frame period has passed
\* since the previous tick and returns the time since then, so the period is
\* the least it returns; `stall` is the time the iteration itself took.
FramePeriod == 1000 \div FRAMERATE
tick(stall) == Max(stall, FramePeriod)

\* The longest time between two iterations of the loop that is tried.
LongestStall == Quantum * MaxDtSteps

\* ------------------------------------------------------------ Timer

\* Timer(duration, func, autostart, repeat); activate() arms it.
Timer(duration, repeat, autostart) ==
    [duration |-> duration, repeat |-> repeat,
     active |-> autostart, elapsed |-> 0]

activate(t) == [t EXCEPT !.active = TRUE, !.elapsed = 0]

\* The passage of ms milliseconds, as an armed timer sees it.
advance(t, ms) ==
    IF t.active THEN [t EXCEPT !.elapsed = Min(t.duration, t.elapsed + ms)]
    ELSE t

\* Whether update() finds the timer expired (and so calls its func).
expired(t) == t.active /\ t.elapsed >= t.duration

\* The timer after update(): a repeating timer re-arms from now, a one-shot
\* timer deactivates; an inactive or running timer is left alone.
after_update(t) ==
    IF expired(t)
    THEN IF t.repeat THEN activate(t) ELSE [t EXCEPT !.active = FALSE]
    ELSE t

\* ------------------------------------------------------------ sprites

PlayerWidth == 64
PlayerHeight == 64
EnemySize == 64
BulletWidth == 16
BulletHeight == 16
BulletSpeed == 128
BulletRange == 128
PlayerStepX == 64
PlayerStepY == 48

\* Group.sprites(): the members of a group in the order they joined it.  A
\* sprite joins all its groups when it is made and leaves them together, so
\* the oldest-first order of all_sprites gives the order of every group.
sprites(g, group) ==
    LET member(i) == i \in group IN SelectSeq(g.order, member)

\* The first free sprite handle.
NewId(g) == Least((1..(Cardinality(g.all_sprites) + 1)) \ g.all_sprites)

\* Sprite.__init__(groups): the sprite joins every group of `groups`.
add(g, rec, groups) ==
    LET id == NewId(g) IN
    [g EXCEPT
       !.spr = [i \in DOMAIN g.spr \cup {id} |->
                   IF i = id THEN rec ELSE g.spr[i]],
       !.order = IF "all" \in groups THEN Append(@, id) ELSE @,
       !.all_sprites = IF "all" \in groups THEN @ \cup {id} ELSE @,
       !.collision_sprites = IF "collision" \in groups THEN @ \cup {id} ELSE @,
       !.bullet_sprites = IF "bullet" \in groups THEN @ \cup {id} ELSE @,
       !.enemy_sprites = IF "enemy" \in groups THEN @ \cup {id} ELSE @]

\* Sprite.kill(): the sprites of `ids` leave every group.
kill(g, ids) ==
    [g EXCEPT
       !.spr = [i \in DOMAIN g.spr \ ids |-> g.spr[i]],
       !.order = LET stays(i) == i \notin ids IN SelectSeq(@, stays),
       !.all_sprites = @ \ ids,
       !.collision_sprites = @ \ ids,
       !.bullet_sprites = @ \ ids,
       !.enemy_sprites = @ \ ids]

\* The four empty() calls as they would be with bullet_sprites forgotten.
empty_groups_but_bullets(g) ==
    [g EXCEPT !.spr = [i \in g.bullet_sprites |-> g.spr[i]],
              !.order = << >>,
              !.all_sprites = {}, !.collision_sprites = {},
              !.enemy_sprites = {}]

\* Group.empty() of the four groups.
empty_groups(g) ==
    [g EXCEPT !.spr = << >>, !.order = << >>,
              !.all_sprites = {}, !.collision_sprites = {},
              !.bullet_sprites = {}, !.enemy_sprites = {}]

Tile(kind, x, y) ==
    [kind |-> kind, x |-> x * TILE_SIZE, y |-> y * TILE_SIZE,
     w |-> TILE_SIZE, h |-> TILE_SIZE]

Player(x, y, skin) ==
    [kind |-> "player", x |-> x, y |-> y, w |-> PlayerWidth,
     h |-> PlayerHeight, facing |-> 1, skin |-> skin]

Worm(rect) ==
    [kind |-> "worm", x |-> rect.x, y |-> rect.y, w |-> EnemySize,
     h |-> EnemySize, rect |-> rect, destroyed |-> FALSE]

Bee(x, y, speed) ==
    [kind |-> "bee", x |-> x, y |-> y, w |-> EnemySize, h |-> EnemySize,
     speed |-> speed, destroyed |-> FALSE]

Bullet(x, y, direction) ==
    [kind |-> "bullet", x |-> x, y |-> y, w |-> BulletWidth,
     h |-> BulletHeight, dir |-> direction, dist |-> 0]

Fire(x, y) ==
    [kind |-> "fire", x |-> x, y |-> y, w |-> BulletWidth, h |-> BulletHeight]

\* ------------------------------------------------------------ Game

\* What one frame did, for the properties to look at: whether a QUIT event
\* was polled, the steps in the order they ran, the sounds played, the
\* enemies destroy() was invoked on, the bees created (and each of them as
\* create_bee left it), the times the bee timer was found expired, and the
\* sprites as they stood after all_sprites.update, and what each call of
\* create_bullet added to the groups.
NoFrame ==
    [mode |-> "none", quit |-> FALSE, log |-> << >>, sounds |-> << >>,
     destroys |-> << >>, scheduled |-> << >>, bees |-> {}, born |-> << >>,
     expiries |-> 0, fired |-> << >>, moved |-> << >>,
     moved_bullets |-> {}, moved_enemies |-> {}]

\* A watched run of consecutive Playing frames: the time it has covered, the
\* bees created in it and the dt its last frame was handed.
NoWindow == [on |-> FALSE, elapsed |-> 0, bees |-> 0, last |-> 0]
WindowLength == 3 * BeeInterval

step(g, name) == [g EXCEPT !.frame.log = Append(@, name)]
play(g, sound) == [g EXCEPT !.frame.sounds = Append(@, sound)]

\* What create_bee left behind: the new sprite and the groups it is in.
born(g, h, id) ==
    [bee |-> h.spr[id],
     groups |-> { n \in {"all", "collision", "bullet", "enemy"} :
                    \/ n = "all" /\ id \in h.all_sprites \ g.all_sprites
                    \/ n = "collision"
                          /\ id \in h.collision_sprites \ g.collision_sprites
                    \/ n = "bullet"
                          /\ id \in h.bullet_sprites \ g.bullet_sprites
                    \/ n = "enemy"
                          /\ id \in h.enemy_sprites \ g.enemy_sprites }]

\* create_bee as it would be with the bee placed at the level's right edge.
create_bee_at_edge(g, y, speed) ==
    LET id == NewId(g)
        h == add(g, Bee(g.level_width, y, speed), {"all", "enemy"})
    IN [h EXCEPT !.frame.bees = @ \cup {id},
                 !.frame.born = Append(@, born(g, h, id))]

\* Game.create_bee: one Bee beyond the right edge of the level.
create_bee(g, y, speed) ==
    LET id == NewId(g)
        h == add(g, Bee(g.level_width + WINDOW_WIDTH, y, speed),
                 {"all", "enemy"})
    IN [h EXCEPT !.frame.bees = @ \cup {id},
                 !.frame.born = Append(@, born(g, h, id))]

\* What a call that took g to h added to each group, and of which kind.
fired(g, h) ==
    [all |-> h.all_sprites \ g.all_sprites,
     collision |-> h.collision_sprites \ g.collision_sprites,
     bullet |-> h.bullet_sprites \ g.bullet_sprites,
     enemy |-> h.enemy_sprites \ g.enemy_sprites,
     kinds |-> [i \in h.all_sprites \ g.all_sprites |-> h.spr[i].kind]]

\* create_bullet as it would be with the muzzle flash put among the bullets.
create_bullet_flash_in_bullets(g, pos, direction) ==
    LET x == IF direction = 1
             THEN pos[1] + direction * BulletOffset
             ELSE pos[1] + direction * BulletOffset - BulletWidth
        g1 == add(g, Bullet(x, pos[2], direction), {"all", "bullet"})
        g2 == add(g1, Fire(pos[1], pos[2]), {"all", "bullet"})
    IN [play(g2, "shoot") EXCEPT !.frame.fired = Append(@, fired(g, g2))]

\* Game.create_bullet(pos, direction): a Bullet ahead of the muzzle, a Fire
\* at the muzzle, the shot's sound.
create_bullet(g, pos, direction) ==
    LET x == IF direction = 1
             THEN pos[1] + direction * BulletOffset
             ELSE pos[1] + direction * BulletOffset - BulletWidth
        g1 == add(g, Bullet(x, pos[2], direction), {"all", "bullet"})
        g2 == add(g1, Fire(pos[1], pos[2]), {"all"})
    IN [play(g2, "shoot") EXCEPT !.frame.fired = Append(@, fired(g, g2))]

\* The three loops of Game.setup over the map's layers.
RECURSIVE setup_main(_, _)
setup_main(g, tiles) ==
    IF tiles = << >> THEN g
    ELSE setup_main(add(g, Tile("tile", Head(tiles).x, Head(tiles).y),
                        {"all", "collision"}),
                    Tail(tiles))

RECURSIVE setup_decoration(_, _)
setup_decoration(g, tiles) ==
    IF tiles = << >> THEN g
    ELSE setup_decoration(add(g, Tile("deco", Head(tiles).x, Head(tiles).y),
                              {"all"}),
                          Tail(tiles))

RECURSIVE setup_entities(_, _)
setup_entities(g, objs) ==
    IF objs = << >> THEN g
    ELSE LET obj == Head(objs)
             g1 == IF obj.name = "Player"
                   THEN [add(g, Player(obj.x, obj.y, g.selected_character),
                             {"all"})
                           EXCEPT !.player = NewId(g)]
                   ELSE g
             g2 == IF obj.name = "Worm"
                   THEN add(g1, Worm([x |-> obj.x, y |-> obj.y,
                                      width |-> obj.width,
                                      height |-> obj.height]),
                            {"all", "enemy"})
                   ELSE g1
         IN setup_entities(g2, Tail(objs))

\* setup as it would be without the four empty() calls at its head.
setup_on_top(g) ==
    LET g1 == [g EXCEPT
                  !.level_width = g.tmx_map.width * TILE_SIZE,
                  !.level_height = g.tmx_map.height * TILE_SIZE]
    IN play(setup_entities(
                setup_decoration(setup_main(g1, g.tmx_map.Main),
                                 g.tmx_map.Decoration),
                g.tmx_map.Entities),
            "music")

\* Game.setup: empty the four groups, build the level anew and start the
\* music.
setup(g) ==
    LET g1 == [empty_groups(g) EXCEPT
                  !.level_width = g.tmx_map.width * TILE_SIZE,
                  !.level_height = g.tmx_map.height * TILE_SIZE]
    IN play(setup_entities(
                setup_decoration(setup_main(g1, g.tmx_map.Main),
                                 g.tmx_map.Decoration),
                g.tmx_map.Entities),
            "music")

\* Game.schedule_worm_respawn(rect): a one-shot Timer is made and armed, and
\* no reference to it is kept: nothing ever calls its update().  (`stale`
\* tells a timer armed in an earlier session, `early` one whose delay had
\* not passed when that session was restarted.)
schedule_worm_respawn(g, rect) ==
    [g EXCEPT !.respawn_timers =
        Append(@, [timer |-> activate(Timer(RespawnDelay, FALSE, FALSE)),
                   rect |-> rect, stale |-> FALSE, early |-> FALSE])]

\* reset_game as it would be if the restart led back to the menu.
reset_game_to_menu(g) ==
    [setup([empty_groups(g) EXCEPT !.game_over_sound_played = FALSE])
        EXCEPT !.state = "menu"]

\* Game.reset_game.
reset_game(g) ==
    LET g1 == empty_groups(g)
        g2 == [g1 EXCEPT !.game_over_sound_played = FALSE]
        g3 == setup(g2)
    IN [g3 EXCEPT !.state = "game"]

\* ------------------------------------------------------------ sprite updates

Clamp(v, lo, hi) == Max(lo, Min(hi, v))

\* What the player is asked to do in one frame: the net horizontal and
\* vertical displacement in steps (input, gravity and the tiles together),
\* and whether the fire key is taken.
Inputs ==
    [dx : {-1, 0, 1}, dy : {-1, 0, 1}, fire : BOOLEAN]

put(g, id, rec) == [g EXCEPT !.spr[id] = rec]

\* Player.update(dt): move, face the way of the move, fire on request.
Player_update(g, id, dt, input) ==
    LET p == g.spr[id]
        nx == Clamp(p.x + input.dx * PlayerStepX, 0, g.level_width - p.w)
        ny == Clamp(p.y + input.dy * PlayerStepY, 0,
                    g.level_height + PlayerStepY)
        facing == IF input.dx # 0 THEN input.dx ELSE p.facing
        g1 == put(g, id, [p EXCEPT !.x = nx, !.y = ny, !.facing = facing])
    IN IF input.fire
       THEN create_bullet(g1, << nx + p.w \div 2, ny + p.h \div 2 >>, facing)
       ELSE g1

\* Enemy.update(dt): an enemy that was destroyed leaves its groups; a Bee
\* flies left at its speed and leaves once wholly left of the level; a Worm
\* stays in its band, which is as wide as the Worm itself.
Enemy_update(g, id, dt) ==
    LET e == g.spr[id]
        nx == IF e.kind = "bee" THEN e.x - (e.speed * dt) \div 1000 ELSE e.x
    IN IF e.destroyed \/ nx + e.w <= 0
       THEN kill(g, {id})
       ELSE put(g, id, [e EXCEPT !.x = nx])

\* Bullet.update(dt): fly on, and leave after BulletRange pixels.
Bullet_update(g, id, dt) ==
    LET b == g.spr[id]
        d == (BulletSpeed * dt) \div 1000
    IN IF b.dist + d >= BulletRange
       THEN kill(g, {id})
       ELSE put(g, id, [b EXCEPT !.x = b.x + b.dir * d, !.dist = b.dist + d])

\* Fire.update(dt): the muzzle flash lasts less than one frame.
Fire_update(g, id, dt) == kill(g, {id})

sprite_update(g, id, dt, input) ==
    LET k == g.spr[id].kind IN
    CASE k = "player" -> Player_update(g, id, dt, input)
      [] k \in {"bee", "worm"} -> Enemy_update(g, id, dt)
      [] k = "bullet" -> Bullet_update(g, id, dt)
      [] k = "fire" -> Fire_update(g, id, dt)
      [] OTHER -> g

\* AllSprites.update(dt): every sprite that was in the group when the call
\* began is updated once.
RECURSIVE update_each(_, _, _, _)
update_each(g, ids, dt, input) ==
    IF ids = << >> THEN g
    ELSE update_each(sprite_update(g, Head(ids), dt, input),
                     Tail(ids), dt, input)

all_sprites_update(g, dt, input) ==
    LET h == update_each(g, sprites(g, g.all_sprites), dt, input)
    IN step([h EXCEPT !.frame.moved = h.spr,
                      !.frame.moved_bullets = h.bullet_sprites,
                      !.frame.moved_enemies = h.enemy_sprites],
            "all_sprites.update")

\* Enemy.destroy(). Game.collision removes a bullet with kill() and calls
\* destroy() on the enemy (main.py 168-170); sprites.py, where destroy() is
\* written, is not among the sources. From the specification: destroy() is
\* the enemy's own operation, set apart from the bullet's immediate removal,
\* and its removal is in effect before the next frame's collision pass, so
\* the call marks the enemy and Enemy.update takes it out of its groups; a
\* Worm asks the game for a respawn at its rect. Whether a call on an enemy
\* that is already destroyed returns at once is what `idempotent` says:
\* the specification requires it, and nothing in main.py enforces it
\* (collision calls destroy() once for every overlapping bullet and
\* schedule_worm_respawn arms one Timer for every call).
destroy(g, id) ==
    LET e == g.spr[id]
        g1 == [g EXCEPT !.frame.destroys = Append(@, id)]
    IN IF e.destroyed /\ g.idempotent THEN g1
       ELSE LET g2 == put(g1, id, [e EXCEPT !.destroyed = TRUE])
            IN IF e.kind = "worm"
               THEN schedule_worm_respawn(
                        [g2 EXCEPT !.frame.scheduled = Append(@, id)], e.rect)
               ELSE g2

\* The inner loop of Game.collision as it would be if it stopped after the
\* first enemy.
destroy_first(g, ids) ==
    IF ids = << >> THEN g ELSE destroy(g, Head(ids))

\* The inner loop of Game.collision: destroy() on every enemy the bullet hit.
RECURSIVE destroy_each(_, _)
destroy_each(g, ids) ==
    IF ids = << >> THEN g
    ELSE destroy_each(destroy(g, Head(ids)), Tail(ids))

\* pygame.sprite.spritecollide(sprite, group, False, collide_mask).
spritecollide(g, id, group) ==
    { e \in group : collide_mask(g.spr[id], g.spr[e]) }

\* The first loop of Game.collision: bullets -> enemies.
RECURSIVE collision_bullets(_, _)
collision_bullets(g, bullets) ==
    IF bullets = << >> THEN g
    ELSE LET bullet == Head(bullets)
             sprite_collision == spritecollide(g, bullet, g.enemy_sprites)
             g1 == IF sprite_collision # {}
                   THEN destroy_each(kill(play(g, "impact"), {bullet}),
                                     sprites(g, sprite_collision))
                   ELSE g
         IN collision_bullets(g1, Tail(bullets))

\* collision as it would be if the player were tested against the bullets.
collision_wrong_group(g) ==
    LET g1 == collision_bullets(g, sprites(g, g.bullet_sprites))
        g2 == IF spritecollide(g1, g1.player, g1.bullet_sprites) # {}
              THEN [g1 EXCEPT !.state = "game_over"]
              ELSE g1
    IN step(g2, "collision")

\* Game.collision.
collision(g) ==
    LET g1 == collision_bullets(g, sprites(g, g.bullet_sprites))
        g2 == IF spritecollide(g1, g1.player, g1.enemy_sprites) # {}
              THEN [g1 EXCEPT !.state = "game_over"]
              ELSE g1
    IN step(g2, "collision")

\* self.bee_timer.update(): an expired timer re-arms and creates a bee.
bee_timer_update(g, y, speed) ==
    LET g1 == [g EXCEPT !.bee_timer = after_update(@),
                        !.frame.expiries =
                            IF expired(g.bee_timer) THEN @ + 1 ELSE @]
        g2 == IF expired(g.bee_timer) THEN create_bee(g1, y, speed) ELSE g1
    IN step(g2, "bee_timer.update")

\* display_surface.fill(BG_COLOR) and AllSprites.draw(target_pos).
fill(g) == step(g, "fill")
all_sprites_draw(g) == step(g, "all_sprites.draw")

\* The death check as it would be if it waited for the player's bottom edge
\* to be a whole player below the level.
out_of_bounds_late(g) ==
    step(IF g.spr[g.player].y > g.level_height + PlayerHeight
         THEN [g EXCEPT !.state = "game_over"]
         ELSE g,
         "bounds")

\* The death check as it would be if it looked at the player's bottom edge.
out_of_bounds_bottom(g) ==
    step(IF g.spr[g.player].y + g.spr[g.player].h > g.level_height
         THEN [g EXCEPT !.state = "game_over"]
         ELSE g,
         "bounds")

\* The death check of Game.run_game: the player's top is below the level.
out_of_bounds(g) ==
    step(IF g.spr[g.player].y > g.level_height
         THEN [g EXCEPT !.state = "game_over"]
         ELSE g,
         "bounds")

\* run_game as it would be if the collisions were resolved before the
\* sprites are advanced.
run_game_collide_first(g, dt, input, y, speed) ==
    LET g1 == bee_timer_update(g, y, speed)
        g2 == collision([g1 EXCEPT !.frame.moved = g1.spr,
                                   !.frame.moved_bullets = g1.bullet_sprites,
                                   !.frame.moved_enemies = g1.enemy_sprites])
        g3 == all_sprites_update(g2, dt, input)
        g4 == out_of_bounds(g3)
        g5 == fill(g4)
    IN all_sprites_draw(g5)

\* What calling update() on the respawn timers from the k-th on would do:
\* an expired one deactivates and its callback creates a Worm at its rect.
RECURSIVE respawn_update(_, _)
respawn_update(g, k) ==
    IF k > Len(g.respawn_timers) THEN g
    ELSE LET t == g.respawn_timers[k]
             g1 == [g EXCEPT !.respawn_timers[k].timer = after_update(@)]
             g2 == IF expired(t.timer)
                   THEN add(g1, Worm(t.rect), {"all", "enemy"})
                   ELSE g1
         IN respawn_update(g2, k + 1)

\* run_game as it would be if the respawn timers were kept and updated.
run_game_polling_respawns(g, dt, input, y, speed) ==
    LET g0 == respawn_update(g, 1)
        g1 == bee_timer_update(g0, y, speed)
        g2 == all_sprites_update(g1, dt, input)
        g3 == collision(g2)
        g4 == out_of_bounds(g3)
        g5 == fill(g4)
    IN all_sprites_draw(g5)

\* Game.run_game(dt).
run_game(g, dt, input, y, speed) ==
    LET g1 == bee_timer_update(g, y, speed)
        g2 == all_sprites_update(g1, dt, input)
        g3 == collision(g2)
        g4 == out_of_bounds(g3)
        g5 == fill(g4)
    IN all_sprites_draw(g5)

\* Game.draw_menu_background: the world as it stands, darkened.
draw_menu_background(g) == step(all_sprites_draw(fill(g)), "overlay")

\* The pointer in a Menu frame: the character slot it is over (0: none),
\* whether it is over the play control, whether its button is down.
MenuInputs == [slot : 0..MaxSlot, play : BOOLEAN, pressed : BOOLEAN]

\* Game.run_menu.
run_menu(g, mouse) ==
    LET g1 == draw_menu_background(g)
        g2 == IF mouse.slot # 0 /\ mouse.pressed
              THEN [g1 EXCEPT !.selected_character = character_keys[mouse.slot]]
              ELSE g1
    IN IF mouse.play /\ mouse.pressed
       THEN [setup(g2) EXCEPT !.state = "game"]
       ELSE g2

\* The pointer in a GameOver frame.
GameOverInputs == [restart : BOOLEAN, pressed : BOOLEAN]

\* run_game_over as it would be if the cue's flag were never set.
run_game_over_no_flag(g, mouse) ==
    LET g1 == draw_menu_background(g)
        g2 == IF ~g1.game_over_sound_played
              THEN [play(g1, "game-over") EXCEPT !.cue_plays = @ + 1]
              ELSE g1
    IN IF mouse.restart /\ mouse.pressed THEN reset_game(g2) ELSE g2

\* run_game_over as it would be if it kept the bee timer going.
run_game_over_spawning(g, mouse) ==
    LET g1 == draw_menu_background(bee_timer_update(g, 0, BeeSpeedMin))
        g2 == IF ~g1.game_over_sound_played
              THEN [play(g1, "game-over") EXCEPT
                       !.game_over_sound_played = TRUE,
                       !.cue_plays = @ + 1]
              ELSE g1
    IN IF mouse.restart /\ mouse.pressed THEN reset_game(g2) ELSE g2

\* Game.run_game_over.
run_game_over(g, mouse) ==
    LET g1 == draw_menu_background(g)
        g2 == IF ~g1.game_over_sound_played
              THEN [play(g1, "game-over") EXCEPT
                       !.game_over_sound_played = TRUE,
                       !.cue_plays = @ + 1]
              ELSE g1
    IN IF mouse.restart /\ mouse.pressed THEN reset_game(g2) ELSE g2

\* ------------------------------------------------------------ state

VARIABLES
    pc,                      \* "run": in the loop of Game.run; "quit": after it
    running, state, game_over_sound_played, selected_character,
    all_sprites, collision_sprites, bullet_sprites, enemy_sprites,
    spr,                     \* the sprites in all_sprites, by handle
    order,                   \* the handles in all_sprites, oldest first
    tmx_map,                 \* the map load_pygame returns
    level_width, level_height,
    player,                  \* self.player
    bee_timer,               \* self.bee_timer
    respawn_timers,          \* the Timers made by schedule_worm_respawn
    frame,                   \* what the last frame did
    cue_plays,               \* game-over cues played since GameOver was entered
    idempotent,              \* whether Enemy.destroy ignores a repeated call
    window                   \* a watched run of Playing frames

vars ==
    << pc, running, state, game_over_sound_played, selected_character,
       all_sprites, collision_sprites, bullet_sprites, enemy_sprites, spr,
       order, tmx_map, level_width, level_height, player, bee_timer, respawn_timers, frame, cue_plays,
       idempotent, window >>

\* The Game object as a record, and the record written back.
Game ==
    [running |-> running, state |-> state,
     game_over_sound_played |-> game_over_sound_played,
     selected_character |-> selected_character,
     all_sprites |-> all_sprites, collision_sprites |-> collision_sprites,
     bullet_sprites |-> bullet_sprites, enemy_sprites |-> enemy_sprites,
     spr |-> spr, order |-> order, tmx_map |-> tmx_map,
     level_width |-> level_width,
     level_height |-> level_height, player |-> player,
     bee_timer |-> bee_timer,
     respawn_timers |-> respawn_timers, frame |-> frame,
     cue_plays |-> cue_plays, idempotent |-> idempotent,
     window |-> window]

Becomes(g) ==
    /\ running' = g.running
    /\ state' = g.state
    /\ game_over_sound_played' = g.game_over_sound_played
    /\ selected_character' = g.selected_character
    /\ all_sprites' = g.all_sprites
    /\ collision_sprites' = g.collision_sprites
    /\ bullet_sprites' = g.bullet_sprites
    /\ enemy_sprites' = g.enemy_sprites
    /\ spr' = g.spr
    /\ order' = g.order
    /\ tmx_map' = g.tmx_map
    /\ level_width' = g.level_width
    /\ level_height' = g.level_height
    /\ player' = g.player
    /\ bee_timer' = g.bee_timer
    /\ respawn_timers' = g.respawn_timers
    /\ frame' = g.frame
    /\ cue_plays' = g.cue_plays
    /\ idempotent' = g.idempotent
    /\ window' = g.window
    /\ pc' = IF g.running THEN "run" ELSE "quit"

\* Game.__init__ as it would be with the bee timer made for half the interval.
Constructed_half_interval(m) ==
    LET g0 == [running |-> TRUE, state |-> "menu",
               game_over_sound_played |-> FALSE,
               selected_character |-> "beige",
               all_sprites |-> {}, collision_sprites |-> {},
               bullet_sprites |-> {}, enemy_sprites |-> {},
               spr |-> << >>, order |-> << >>, tmx_map |-> m,
               level_width |-> 0,
               level_height |-> 0, player |-> 0,
               bee_timer |-> Timer(BeeInterval \div 2, TRUE, TRUE),
               respawn_timers |-> << >>, frame |-> NoFrame, cue_plays |-> 0,
               window |-> NoWindow]
    IN setup(g0)

\* Game.__init__ on the map m: Menu, the level built once, the bee timer
\* armed.
Constructed(m) ==
    LET g0 == [running |-> TRUE, state |-> "menu",
               game_over_sound_played |-> FALSE,
               selected_character |-> "beige",
               all_sprites |-> {}, collision_sprites |-> {},
               bullet_sprites |-> {}, enemy_sprites |-> {},
               spr |-> << >>, order |-> << >>, tmx_map |-> m,
               level_width |-> 0,
               level_height |-> 0, player |-> 0,
               bee_timer |-> Timer(BeeInterval, TRUE, TRUE),
               respawn_timers |-> << >>, frame |-> NoFrame, cue_plays |-> 0,
               window |-> NoWindow]
    IN setup(g0)

InitOn(m) ==
    LET c == Constructed(m) IN
    /\ pc = "run"
    /\ running = c.running
    /\ state = c.state
    /\ game_over_sound_played = c.game_over_sound_played
    /\ selected_character = c.selected_character
    /\ all_sprites = c.all_sprites
    /\ collision_sprites = c.collision_sprites
    /\ bullet_sprites = c.bullet_sprites
    /\ enemy_sprites = c.enemy_sprites
    /\ spr = c.spr
    /\ order = c.order
    /\ tmx_map = c.tmx_map
    /\ level_width = c.level_width
    /\ level_height = c.level_height
    /\ player = c.player
    /\ bee_timer = c.bee_timer
    /\ respawn_timers = c.respawn_timers
    /\ frame = c.frame
    /\ cue_plays = c.cue_plays
    /\ idempotent \in BOOLEAN
    /\ window = c.window

Init == InitOn(WorldMap)

\* The head of one iteration of Game.run: clock.tick (dt ms pass for every
\* armed timer) and the event loop (a QUIT event clears running).
RECURSIVE advance_all(_, _)
advance_all(timers, ms) ==
    IF timers = << >> THEN << >>
    ELSE << [Head(timers) EXCEPT !.timer = advance(@, ms)] >>
         \o advance_all(Tail(timers), ms)

\* begin_frame as it would be if the event loop let the QUIT event pass.
begin_frame_deaf(g, dt, quit) ==
    [g EXCEPT !.bee_timer = advance(@, dt),
              !.respawn_timers = advance_all(@, dt),
              !.frame = [NoFrame EXCEPT !.mode = g.state, !.quit = quit]]

begin_frame(g, dt, quit) ==
    [g EXCEPT !.bee_timer = advance(@, dt),
              !.respawn_timers = advance_all(@, dt),
              !.running = IF quit THEN FALSE ELSE @,
              !.frame = [NoFrame EXCEPT !.mode = g.state, !.quit = quit]]

\* The watched run after a frame of dt ms that began in mode `mode` and
\* created n bees: a frame outside Playing ends it, a Playing frame extends
\* it (or starts one, when `watch` asks for it), and a run that has covered
\* WindowLength is not carried further.
watched(w, mode, dt, n, watch) ==
    IF mode # "game" THEN NoWindow
    ELSE IF w.on /\ w.elapsed + dt <= WindowLength
         THEN [w EXCEPT !.elapsed = @ + dt, !.bees = @ + n, !.last = dt]
         ELSE IF watch /\ ~w.on
              THEN [on |-> TRUE, elapsed |-> dt, bees |-> n, last |-> dt]
              ELSE NoWindow

\* What the frame that took g to h leaves for the properties: entering
\* GameOver starts a new count of the cue, a restart makes the respawn
\* timers armed so far those of an earlier session, and the watched run
\* goes on.
end_frame(g, h, dt, watch) ==
    LET h1 == IF g.state = "game" /\ h.state = "game_over"
              THEN [h EXCEPT !.cue_plays = 0]
              ELSE h
        h2 == IF g.state = "game_over" /\ h.state = "game"
              THEN [h1 EXCEPT !.respawn_timers =
                       [k \in DOMAIN h1.respawn_timers |->
                          LET t == h1.respawn_timers[k] IN
                          [t EXCEPT !.stale = TRUE,
                                    !.early = IF t.stale THEN t.early
                                              ELSE ~expired(t.timer)]]]
              ELSE h1
    IN [h2 EXCEPT !.window =
           watched(g.window, g.state, dt, Cardinality(h.frame.bees), watch)]

\* randint(0, self.level_height) and randint(300, 500): any integer of the
\* range, both ends included.
BeeYChoices == 0..level_height
BeeSpeedChoices == BeeSpeedMin..BeeSpeedMax

\* The two ends of the range of y.
BeeYEnds == {0, level_height}

\* The draws a specification samples them at.
BeeYSamples ==
    { (level_height * k) \div MaxBeeYSteps : k \in 0..(MaxBeeYSteps - 1) }
BeeSpeedSamples ==
    { BeeSpeedMin + ((BeeSpeedMax - BeeSpeedMin) * k) \div MaxBeeSpeedSteps :
        k \in 0..(MaxBeeSpeedSteps - 1) }

\* One iteration of the loop of Game.run, by the mode it dispatches on, with
\* the stalls between two ticks, the QUIT events and the pointer and key
\* inputs drawn from the given sets.
MenuFrameOf(dts, quits, mice) ==
    /\ pc = "run" /\ state = "menu"
    /\ \E dt \in { tick(s) : s \in dts }, quit \in quits, mouse \in mice :
          Becomes(end_frame(Game, run_menu(begin_frame(Game, dt, quit), mouse),
                            dt, FALSE))

GameFrameOf(dts, quits, inputs, bullets, timers, watches, ys, speeds) ==
    /\ pc = "run" /\ state = "game"
    /\ \E dt \in { tick(s) : s \in dts }, quit \in quits,
          input \in inputs, watch \in watches,
          y \in ys \cap BeeYChoices, speed \in speeds \cap BeeSpeedChoices :
          \* the fire key is taken while fewer than `bullets` are in flight
          /\ input.fire => Cardinality(bullet_sprites) < bullets
          \* randint is only drawn from when a bee is created
          /\ ~expired(advance(bee_timer, dt))
                => (y = 0 /\ speed = BeeSpeedMin)
          /\ LET h == end_frame(Game,
                                run_game(begin_frame(Game, dt, quit),
                                         dt, input, y, speed),
                                dt, watch)
             IN /\ Len(h.respawn_timers) <= timers
                /\ Becomes(h)

GameOverFrameOf(dts, quits, mice) ==
    /\ pc = "run" /\ state = "game_over"
    /\ \E dt \in { tick(s) : s \in dts }, quit \in quits, mouse \in mice :
          Becomes(end_frame(Game,
                            run_game_over(begin_frame(Game, dt, quit), mouse),
                            dt, FALSE))

MenuFrame == MenuFrameOf(DtChoices, BOOLEAN, MenuInputs)
GameFrame ==
    GameFrameOf(DtChoices, BOOLEAN, Inputs, MaxBullets, MaxTimers, {FALSE},
                BeeYSamples, BeeSpeedSamples)
GameOverFrame == GameOverFrameOf(DtChoices, BOOLEAN, GameOverInputs)

Next == MenuFrame \/ GameFrame \/ GameOverFrame

Spec == Init /\ [][Next]_vars

\* ------------------------------------------------------------ watched runs

\* The same game with a player that neither walks nor fires and no QUIT
\* event, with any Playing frame free to start a watched run, and with the
\* bee's y drawn from the two ends of its range.
Idle == { i \in Inputs : i.dx = 0 /\ ~i.fire }
Clicks == { [restart |-> TRUE, pressed |-> TRUE] }
Plays == { [slot |-> 0, play |-> TRUE, pressed |-> TRUE],
           [slot |-> 0, play |-> FALSE, pressed |-> FALSE] }

WatchMenuFrame == MenuFrameOf(DtChoices, {FALSE}, Plays)
WatchGameFrame ==
    GameFrameOf(DtChoices, {FALSE}, Idle, MaxBullets, MaxTimers, BOOLEAN,
                BeeYEnds, BeeSpeedSamples)
WatchGameOverFrame == GameOverFrameOf(DtChoices, {FALSE}, Clicks)

WatchNext == WatchMenuFrame \/ WatchGameFrame \/ WatchGameOverFrame

WatchSpec == Init /\ [][WatchNext]_vars

\* ------------------------------------------------------------ volleys

\* The game on the longer map, with a player that walks and fires (and stays
\* on the ground), up to MaxVolley bullets in flight, frames of one length
\* and no QUIT event.
Walks == { i \in Inputs : i.dy = 0 }

VolleyMenuFrame == MenuFrameOf({Quantum}, {FALSE}, Plays)
VolleyGameFrame ==
    GameFrameOf({Quantum}, {FALSE}, Walks, MaxVolley, MaxVolley, {FALSE},
                BeeYSamples, BeeSpeedSamples)
VolleyGameOverFrame == GameOverFrameOf({Quantum}, {FALSE}, Clicks)

VolleyNext == VolleyMenuFrame \/ VolleyGameFrame \/ VolleyGameOverFrame

VolleySpec == InitOn(LongMap) /\ [][VolleyNext]_vars

\* ------------------------------------------------------------ bee draws

\* The game with a player that stands still, frames of one length, no QUIT
\* event and a restart in the first GameOver frame, and with the bee's y and
\* speed drawn from the whole of their ranges.
Stands == { i \in Inputs : i.dx = 0 /\ i.dy = 0 /\ ~i.fire }

BeeMenuFrame == MenuFrameOf({Quantum}, {FALSE}, Plays)
BeeGameFrame ==
    GameFrameOf({Quantum}, {FALSE}, Stands, MaxBullets, MaxTimers, {FALSE},
                BeeYChoices, BeeSpeedChoices)
BeeGameOverFrame == GameOverFrameOf({Quantum}, {FALSE}, Clicks)

BeeNext == BeeMenuFrame \/ BeeGameFrame \/ BeeGameOverFrame

BeeSpec == Init /\ [][BeeNext]_vars

\* ------------------------------------------------------------ properties

Range(q) == { q[i] : i \in DOMAIN q }

\* The enemies that overlapped sprite i when all_sprites.update had returned.
MovedHits(i) ==
    { e \in frame.moved_enemies : collide_mask(frame.moved[i], frame.moved[e]) }

\* The sprites of all_sprites of one kind.
OfKind(k) == { i \in all_sprites : spr[i].kind = k }

\* The rects of the Worms the map declares.
DeclaredWorms ==
    { [x |-> o.x, y |-> o.y, width |-> o.width, height |-> o.height] :
        o \in { e \in Range(tmx_map.Entities) : e.name = "Worm" } }

\* C1: the mode starts as Menu, and from one frame to the next it only
\* changes Menu -> Playing, Playing -> GameOver or GameOver -> Playing (so
\* never Menu <-> GameOver, and never back to Menu).
C1_ModeTransitions ==
    /\ state = "menu"
    /\ [][state' # state =>
            << state, state' >> \in { << "menu", "game" >>,
                                      << "game", "game_over" >>,
                                      << "game_over", "game" >> }]_vars

\* A restart: the last frame began in GameOver and ended in Playing (after the
\* play action and a death).
C1_Witness == frame.mode = "game_over" /\ state = "game"

\* C2: a Playing frame in which an enemy overlaps the player after the
\* movement ends in GameOver, with the player still in all_sprites.
C2_EnemyHitEndsGame ==
    (frame.mode = "game" /\ MovedHits(player) # {})
        => (state = "game_over" /\ player \in all_sprites)

\* A Playing frame in which an enemy overlapped a player that stood inside
\* the level, and that ended in GameOver.
C2_Witness ==
    /\ frame.mode = "game"
    /\ MovedHits(player) # {}
    /\ frame.moved[player].y <= level_height
    /\ state = "game_over"
    /\ player \in all_sprites

\* C3: a Playing frame after whose movement the player's top is below the
\* level's bottom edge ends in GameOver, whatever the collisions did.
C3_FallEndsGame ==
    (frame.mode = "game" /\ frame.moved[player].y > level_height)
        => state = "game_over"

\* A Playing frame that ended in GameOver for the fall alone: the player was
\* below the level and no enemy overlapped it.
C3_Witness ==
    /\ frame.mode = "game"
    /\ frame.moved[player].y > level_height
    /\ MovedHits(player) = {}
    /\ state = "game_over"

\* C4: the game-over cue plays once per entry into GameOver: it has played
\* exactly once after every GameOver frame and at every restart, never twice.
C4_CueOncePerEntry ==
    /\ [](cue_plays <= 1)
    /\ []((frame.mode = "game_over" /\ state = "game_over") => cue_plays = 1)
    /\ [][(state = "game_over" /\ state' = "game") => cue_plays' = 1]_vars

\* A GameOver frame after the first one: the cue did not play in it, and has
\* played once since GameOver was entered.
C4_Witness ==
    /\ frame.mode = "game_over" /\ state = "game_over"
    /\ "game-over" \notin Range(frame.sounds)
    /\ cue_plays = 1

\* C5: after the restart action no bullet is left, the enemies are exactly
\* the declared Worms (unharmed, at their rects), all_sprites holds one
\* Player, the tiles and those Worms, and the mode is Playing.
C5_RestartRebuilds ==
    (frame.mode = "game_over" /\ state = "game")
        => /\ bullet_sprites = {}
           /\ enemy_sprites = OfKind("worm")
           /\ Cardinality(enemy_sprites) = Cardinality(DeclaredWorms)
           /\ { spr[e].rect : e \in enemy_sprites } = DeclaredWorms
           /\ \A e \in enemy_sprites :
                 ~spr[e].destroyed /\ spr[e].x = spr[e].rect.x
                                   /\ spr[e].y = spr[e].rect.y
           /\ OfKind("player") = {player}
           /\ Cardinality(OfKind("tile")) = Len(tmx_map.Main)
           /\ Cardinality(OfKind("deco")) = Len(tmx_map.Decoration)
           /\ all_sprites = OfKind("player") \cup OfKind("tile")
                               \cup OfKind("deco") \cup OfKind("worm")
           /\ DOMAIN spr = all_sprites

\* A restart of a session in which a Worm had been destroyed.
C5_Witness ==
    frame.mode = "game_over" /\ state = "game" /\ respawn_timers # << >>

\* C6: a Playing frame runs its steps in one order: the bee timer, the
\* sprites, the collisions, the death check, the drawing.  So a bee created
\* in the frame has already flown on, and no sprite stands elsewhere at the
\* end of the frame than after all_sprites.update.
C6_FrameOrder ==
    frame.mode = "game"
        => /\ frame.log = << "bee_timer.update", "all_sprites.update",
                             "collision", "bounds", "fill", "all_sprites.draw" >>
           /\ \A b \in frame.bees \cap all_sprites :
                 spr[b].x < level_width + WINDOW_WIDTH
           /\ \A i \in all_sprites :
                 /\ i \in DOMAIN frame.moved
                 /\ spr[i].x = frame.moved[i].x
                 /\ spr[i].y = frame.moved[i].y
           /\ \A i \in Range(frame.destroys) : i \in frame.moved_enemies

\* A Playing frame that created a bee, moved it and destroyed it.
C6_Witness ==
    /\ frame.mode = "game"
    /\ \E b \in frame.bees : b \in all_sprites /\ b \in Range(frame.destroys)

\* C7: after a Playing frame, a bullet that overlapped an enemy is in neither
\* bullet_sprites nor all_sprites and destroy() was invoked on every enemy it
\* overlapped; a bullet that overlapped none is where and as it was.
C7_BulletHits ==
    frame.mode = "game"
        => \A b \in frame.moved_bullets :
              IF MovedHits(b) # {}
              THEN /\ b \notin bullet_sprites
                   /\ b \notin all_sprites
                   /\ MovedHits(b) \subseteq Range(frame.destroys)
                   /\ \A e \in MovedHits(b) : spr[e].destroyed
              ELSE /\ b \in bullet_sprites
                   /\ b \in all_sprites
                   /\ spr[b] = frame.moved[b]

\* A Playing frame in which one bullet overlapped two enemies.
C7_Witness ==
    /\ frame.mode = "game"
    /\ \E b \in frame.moved_bullets : Cardinality(MovedHits(b)) >= 2

\* C8: a respawn timer whose 3000 ms have passed by a Playing frame has
\* fired: a Worm with the remembered rect is among the enemies again.
C8_RespawnFires ==
    \A k \in DOMAIN respawn_timers :
        (frame.mode = "game" /\ state = "game"
            /\ respawn_timers[k].timer.elapsed >= RespawnDelay)
        => \E e \in enemy_sprites :
              /\ spr[e].kind = "worm"
              /\ spr[e].rect = respawn_timers[k].rect
              /\ ~spr[e].destroyed

\* How often x occurs in the sequence q.
Occurrences(q, x) == Cardinality({ i \in DOMAIN q : q[i] = x })

\* C9: however often destroy() is invoked on a Worm in a collision pass, the
\* Worm ends as one invocation leaves it and one respawn is scheduled for
\* it: a frame arms as many respawn timers as it destroyed Worms. Game.run
\* decides this only as far as invoking destroy() once for every bullet on
\* the Worm; the rest is Enemy.destroy, so the formula holds in the runs
\* where idempotent is TRUE and fails in the others.
C9_DestroyOnce ==
    /\ [](frame.mode = "game" =>
            \A e \in Range(frame.destroys) :
                /\ spr[e] = [frame.moved[e] EXCEPT !.destroyed = TRUE]
                /\ spr[e].kind = "worm" => Occurrences(frame.scheduled, e) = 1)
    /\ [][frame'.mode = "game" =>
            Len(respawn_timers') =
                Len(respawn_timers)
                + Cardinality({ e \in Range(frame'.destroys) :
                                  spr'[e].kind = "worm" })]_vars

\* A collision pass that invoked destroy() twice on one Worm.
C9_Witness ==
    /\ frame.mode = "game"
    /\ \E e \in Range(frame.destroys) :
          spr[e].kind = "worm" /\ Occurrences(frame.destroys, e) >= 2

\* C10 (as claimed): a run of Playing frames that covers 3000 ms creates
\* exactly 3 bees, wherever the frame boundaries fall.
C10_ExactlyThreeBees ==
    (window.on /\ window.elapsed = WindowLength) => window.bees = 3

\* C10 (amended): a run of Playing frames that covers 3000 ms creates at
\* least one bee and at most 3: the timer re-arms from the frame that saw it
\* expire, so two bees are never less than 1000 ms apart, and a frame that
\* ends after the expiry delays every later bee.
C10_AtMostThreeBees ==
    (window.on /\ window.elapsed = WindowLength)
        => (window.bees >= 1 /\ window.bees <= 3)

\* A watched run that covered 3000 ms and saw 3 bees.
C10_Witness ==
    window.on /\ window.elapsed = WindowLength /\ window.bees = 3

\* C11: the dt handed to a Playing frame has an enforced maximum: however
\* long the loop stalls between two iterations, run_game is handed less
\* than the longest stall.
C11_DtHasMaximum ==
    window.on => window.last < LongestStall

\* C12: a QUIT event polled in a frame of any mode clears running; the
\* iteration is still finished (the mode's steps all run), the loop is then
\* left for pygame.quit() and no further frame starts; running is cleared
\* by a QUIT event only and never set again.
C12_QuitEndsLoop ==
    /\ [](frame.quit => (~running /\ pc = "quit"))
    /\ [](frame.quit =>
            frame.log = IF frame.mode = "game"
                        THEN << "bee_timer.update", "all_sprites.update",
                                "collision", "bounds", "fill",
                                "all_sprites.draw" >>
                        ELSE << "fill", "all_sprites.draw", "overlay" >>)
    /\ [](pc = "quit" <=> ~running)
    /\ [][pc = "run" /\ running /\ (~running' => frame'.quit)]_vars

\* A QUIT event polled in a GameOver frame: the loop has been left.
C12_Witness ==
    frame.quit /\ frame.mode = "game_over" /\ state = "game_over" /\ pc = "quit"

\* C13: after the play control is activated in Menu the groups hold exactly
\* what one setup creates (one Player, the tiles, the declared Worms and no
\* bullet), the Player wears the character selected at that moment and the
\* mode is Playing; selected_character is always one of the five keys and
\* changes in Menu frames only.
C13_PlayRebuilds ==
    /\ []((frame.mode = "menu" /\ state = "game")
            => /\ bullet_sprites = {}
               /\ enemy_sprites = OfKind("worm")
               /\ Cardinality(enemy_sprites) = Cardinality(DeclaredWorms)
               /\ { spr[e].rect : e \in enemy_sprites } = DeclaredWorms
               /\ \A e \in enemy_sprites : ~spr[e].destroyed
               /\ OfKind("player") = {player}
               /\ spr[player].skin = selected_character
               /\ collision_sprites = OfKind("tile")
               /\ Cardinality(OfKind("tile")) = Len(tmx_map.Main)
               /\ Cardinality(OfKind("deco")) = Len(tmx_map.Decoration)
               /\ all_sprites = OfKind("player") \cup OfKind("tile")
                                   \cup OfKind("deco") \cup OfKind("worm")
               /\ DOMAIN spr = all_sprites)
    /\ [](selected_character \in Range(character_keys))
    /\ [][selected_character' # selected_character => state = "menu"]_vars

\* The play control activated with a character other than the one the
\* level was built with in __init__.
C13_Witness ==
    /\ frame.mode = "menu" /\ state = "game"
    /\ selected_character # "beige"
    /\ spr[player].skin = selected_character

\* C14: a Playing frame in which no enemy overlaps the player after the
\* movement and the player's top is not below the level ends in Playing,
\* whatever else the frame did (a bullet hit, a bee created).
C14_OnlyDeathEndsGame ==
    (frame.mode = "game" /\ MovedHits(player) = {}
        /\ frame.moved[player].y <= level_height)
        => state = "game"

\* A Playing frame that created a bee and in which a bullet hit an enemy, and
\* that ended in Playing.
C14_Witness ==
    /\ frame.mode = "game" /\ state = "game"
    /\ frame.bees # {}
    /\ frame.destroys # << >>
    /\ "impact" \in Range(frame.sounds)

\* C15: a Menu or GameOver frame that does not activate play or restart
\* leaves the four groups and every sprite as they are and does not call
\* the bee timer's update (the timer is not re-armed; only time passes for
\* it); no frame outside Playing advances the sprites, resolves collisions
\* or creates a bee.
C15_FrozenOutsidePlaying ==
    /\ [][(state \in {"menu", "game_over"} /\ state' = state)
            => /\ all_sprites' = all_sprites
               /\ collision_sprites' = collision_sprites
               /\ bullet_sprites' = bullet_sprites
               /\ enemy_sprites' = enemy_sprites
               /\ spr' = spr
               /\ player' = player
               /\ bee_timer'.active = bee_timer.active
               /\ bee_timer'.elapsed >= bee_timer.elapsed]_vars
    /\ [](frame.mode \in {"menu", "game_over"}
            => /\ frame.bees = {}
               /\ frame.destroys = << >>
               /\ Range(frame.log) \cap { "bee_timer.update",
                                          "all_sprites.update",
                                          "collision", "bounds" } = {})

\* A GameOver frame that stayed in GameOver while the bee timer was due and
\* a bullet was in flight: the timer is still due and the bullet still there.
C15_Witness ==
    /\ frame.mode = "game_over" /\ state = "game_over"
    /\ expired(bee_timer)
    /\ bullet_sprites # {}

\* C16: every bee the bee timer creates starts at x = level_width +
\* WINDOW_WIDTH, at a y within 0..level_height, with a speed within
\* 300..500, in all_sprites and enemy_sprites and in no other group; a frame
\* creates one bee for each expiry its update of the timer found, and none
\* otherwise.
C16_BeeSpawn ==
    frame.mode = "game"
        => /\ \A k \in DOMAIN frame.born :
                 /\ frame.born[k].bee.kind = "bee"
                 /\ frame.born[k].bee.x = level_width + WINDOW_WIDTH
                 /\ frame.born[k].bee.x > level_width
                 /\ frame.born[k].bee.y \in 0..level_height
                 /\ frame.born[k].bee.speed \in BeeSpeedMin..BeeSpeedMax
                 /\ frame.born[k].groups = {"all", "enemy"}
           /\ Len(frame.born) = frame.expiries
           /\ Cardinality(frame.bees) = frame.expiries
           /\ frame.expiries <= 1

\* A Playing frame that created a bee at a y and with a speed inside their
\* ranges.
C16_Witness ==
    /\ frame.mode = "game"
    /\ frame.expiries = 1
    /\ Len(frame.born) = 1
    /\ frame.born[1].bee.y \in 1..(level_height - 1)
    /\ frame.born[1].bee.speed \in (BeeSpeedMin + 1)..(BeeSpeedMax - 1)

\* C17: in every state the enemies, the bullets and the collision tiles are
\* sprites of all_sprites, no sprite is in two of these three groups, and
\* the player is in all_sprites and in none of the three; each call of
\* create_bullet adds one Bullet to all_sprites and bullet_sprites and one
\* Fire to all_sprites alone.
C17_Groups ==
    /\ enemy_sprites \subseteq all_sprites
    /\ bullet_sprites \subseteq all_sprites
    /\ collision_sprites \subseteq all_sprites
    /\ enemy_sprites \cap bullet_sprites = {}
    /\ enemy_sprites \cap collision_sprites = {}
    /\ bullet_sprites \cap collision_sprites = {}
    /\ player \in all_sprites
    /\ player \notin enemy_sprites \cup bullet_sprites \cup collision_sprites
    /\ Len(frame.fired) = Occurrences(frame.sounds, "shoot")
    /\ \A k \in DOMAIN frame.fired :
          LET s == frame.fired[k] IN
          /\ Cardinality(s.bullet) = 1
          /\ s.bullet \subseteq s.all
          /\ Cardinality(s.all \ s.bullet) = 1
          /\ s.collision = {} /\ s.enemy = {}
          /\ \A i \in s.bullet : s.kinds[i] = "bullet"
          /\ \A i \in s.all \ s.bullet : s.kinds[i] = "fire"

\* A Playing frame in which the player fired, with enemies, a bullet and
\* tiles in their groups.
C17_Witness ==
    /\ frame.mode = "game"
    /\ Len(frame.fired) = 1
    /\ frame.fired[1].bullet \subseteq bullet_sprites
    /\ enemy_sprites # {} /\ collision_sprites # {}

\* C18: a respawn scheduled in one session adds no Worm to a later one:
\* while a respawn timer of an earlier session exists, whether its 3000 ms
\* have passed or not, the Worms are no more than the map declares and no
\* two of them have the same rect.
C18_NoLeak ==
    (\E k \in DOMAIN respawn_timers : respawn_timers[k].stale)
        => /\ Cardinality(OfKind("worm")) <= Cardinality(DeclaredWorms)
           /\ enemy_sprites \cap OfKind("worm") = OfKind("worm")
           /\ \A e, f \in OfKind("worm") :
                 spr[e].rect = spr[f].rect => e = f

\* A Playing frame of a new session, reached by a restart less than 3000 ms
\* after a Worm was destroyed, at which the 3000 ms have passed: the Worms
\* are those the restart built.
C18_Witness ==
    /\ frame.mode = "game" /\ state = "game"
    /\ \E k \in DOMAIN respawn_timers :
          /\ respawn_timers[k].stale
          /\ respawn_timers[k].early
          /\ respawn_timers[k].timer.elapsed >= RespawnDelay
    /\ Cardinality(OfKind("worm")) = Cardinality(DeclaredWorms)

====
